---- MODULE Spec2Model ----
(***************************************************************************)
(* Model of train.py: split-size planning, set-up of the input pipeline    *)
(* and the feeder threads, the epoch loop with its early-stopping          *)
(* checkpoint rule, and the shutdown sequence of the finally block.        *)
(*                                                                         *)
(* Floats are exact rationals [nan, num, den] with one NaN value; ratios   *)
(* are counted in hundredths (0.8 is 80).  Every library call of the loop  *)
(* and of the set-up either returns or raises; what it raises is one of    *)
(* the three classes the two except clauses of main() tell apart.          *)
(***************************************************************************)
EXTENDS Integers, Sequences, FiniteSets, TLC

VARIABLES
    flags,              \* FLAGS: examples, batch_size, the four ratios, epochs
    split_sizes,        \* SplitSizes(train, train_valid, valid, test)
    pc,                 \* position of the control thread in main()
    epoch,              \* loop variable of `for epoch in range(FLAGS.epochs)`
    i,                  \* number of iterations done of the current inner for loop
    placeholders,       \* keys of the placeholders dict (bound batch handles)
    built,              \* splits model.build() was called for
    threads_started,    \* start_queue_runners() has returned
    alive,              \* number of feeder threads that have not exited
    queue,              \* per split, number of items in its bounded queue
    stop_requested,     \* coord.request_stop() was called
    joined,             \* coord.join(threads) has returned
    train_valid_losses, \* the list collected in the current epoch
    best,               \* local variable best (Unbound before its assignment)
    current,            \* local variable current (Unbound before its assignment)
    saved_score,        \* value of current at the latest call of saver.save for an epoch
    save_calls,         \* epochs e for which saver.save(.., 'e.cpkt') was called
    written,            \* epochs e whose e.cpkt was written
    final_attempts,     \* calls of saver.save(.., 'final.cpkt')
    final_writes,       \* writes of final.cpkt that completed
    raised,             \* the last exception raised: [kind, site]
    pending,            \* an exception is propagating (not handled so far)
    caught,             \* times `except Exception` (line 135) handled an exception
    swallowed,          \* times `except ZeroDivisionError` (line 132) handled one
    shutdown_log,       \* steps of the finally block performed, in order
    params,             \* number of optimization steps applied to the parameters
    pulls,              \* per split, session.run() pulls that returned
    files               \* checkpoint files by path: times written, parameters held

vars == <<flags, split_sizes, pc, epoch, i, placeholders, built, threads_started,
          alive, queue, stop_requested, joined, train_valid_losses, best, current, saved_score,
          save_calls, written, final_attempts, final_writes, raised, pending,
          caught, swallowed, shutdown_log, params, pulls, files>>

----------------------------------------------------------------------------
(* Bounds of the model *)

MaxEpochs == 3
MaxCapacity == 1
MaxThreads == 1
MaxExamples == 5
MaxBatch == 2

(* Defaults of the flags, lines 21-29, ratios in hundredths *)
DefaultExamples == 200
DefaultBatchSize == 1
DefaultTrainRatio == 80
DefaultTrainValidRatio == 1
DefaultValidRatio == 19
DefaultTestRatio == 0

Splits == {"train", "train_valid", "valid", "test"}

----------------------------------------------------------------------------
(* Floats *)

F(v) == [nan |-> FALSE, num |-> v, den |-> 1]
NaN == [nan |-> TRUE, num |-> 0, den |-> 1]
Unbound == [nan |-> FALSE, num |-> 0, den |-> 0]

FAdd(a, b) ==
    IF a.nan \/ b.nan THEN NaN
    ELSE [nan |-> FALSE, num |-> a.num * b.den + b.num * a.den, den |-> a.den * b.den]

RECURSIVE Sum(_)
Sum(s) == IF s = <<>> THEN F(0) ELSE FAdd(Sum(Tail(s)), Head(s))

\* sum(losses) / len(losses), for a non-empty list
Mean(losses) ==
    LET s == Sum(losses)
    IN  IF s.nan THEN NaN
        ELSE [nan |-> FALSE, num |-> s.num, den |-> s.den * Len(losses)]

\* a <= b on floats: false as soon as one side is NaN
Leq(a, b) == ~a.nan /\ ~b.nan /\ a.num * b.den <= b.num * a.den

\* the losses session.run returns for train_valid: two finite values and NaN
LossVals == {F(1), F(2), NaN}

----------------------------------------------------------------------------
(* Split sizes, lines 61-65 *)

\* int(num / den) without the call of round: truncation towards zero
PyRoundTruncates(num, den) ==
    IF num >= 0 THEN num \div den ELSE -((-num) \div den)

\* round(num / den) of Python 3 for den > 0: to nearest, ties to the even integer
PyRound(num, den) ==
    LET q == num \div den
        r == num % den
    IN  IF 2 * r < den THEN q
        ELSE IF 2 * r > den THEN q + 1
        ELSE IF q % 2 = 0 THEN q ELSE q + 1

\* int(round(FLAGS.examples * ratio / FLAGS.batch_size)), ratio in hundredths and
\* batch_size # 0
EpochSteps(examples, ratio, batch_size) ==
    IF batch_size > 0
    THEN PyRound(examples * ratio, 100 * batch_size)
    ELSE PyRound(-(examples * ratio), -(100 * batch_size))

SplitPlanner(f) ==
    [train       |-> EpochSteps(f.examples, f.train_ratio, f.batch_size),
     train_valid |-> EpochSteps(f.examples, f.train_valid_ratio, f.batch_size),
     valid       |-> EpochSteps(f.examples, f.valid_ratio, f.batch_size),
     test        |-> EpochSteps(f.examples, f.test_ratio, f.batch_size)]

Unplanned == [train |-> 0, train_valid |-> 0, valid |-> 0, test |-> 0]

----------------------------------------------------------------------------
(* Decoder configurations and graphs, lines 42-54 and 78-83 *)

\* get_decoder_configurations without the test on split_sizes.test
DecoderConfigurationsTestAlways(sizes) ==
    {"train", "test"}
      \cup (IF sizes.train_valid > 0 THEN {"train_valid"} ELSE {})
      \cup (IF sizes.valid > 0 THEN {"valid"} ELSE {})

\* names of the DecodeConfigs returned by get_decoder_configurations
DecoderConfigurations(sizes) ==
    {"train"}
      \cup (IF sizes.train_valid > 0 THEN {"train_valid"} ELSE {})
      \cup (IF sizes.valid > 0 THEN {"valid"} ELSE {})
      \cup (IF sizes.test > 0 THEN {"test"} ELSE {})

\* splits model.build() is called for: train, and every other split with steps > 0
Graphs(sizes) ==
    {"train"} \cup {s \in {"train_valid", "valid", "test"} : sizes[s] > 0}

----------------------------------------------------------------------------
(* Exceptions *)

\* ZeroDivisionError; any other subclass of Exception; a BaseException that is
\* no Exception (KeyboardInterrupt, SystemExit)
ErrorKinds == {"ZeroDivisionError", "Exception", "BaseException"}

\* what session.run raises is no ZeroDivisionError (a failed op is a tf.errors.OpError)
RunErrors == {"Exception", "BaseException"}

NoError == [kind |-> "none", site |-> "none"]

\* `except Exception as e`, line 135
CaughtByLoop(kind) == kind \in {"ZeroDivisionError", "Exception"}

\* `except ZeroDivisionError`, line 132
CaughtByScore(kind) == kind = "ZeroDivisionError"

----------------------------------------------------------------------------
(* Checkpoint files, lines 131 and 139-140 *)

\* every epoch checkpoint saved under one name
EpochPathFixed(e) == "best.cpkt"

\* os.path.join(checkpoints, '{}.cpkt'.format(epoch)), inside the directory
EpochPath(e) == ToString(e) \o ".cpkt"

\* os.path.join(checkpoints, 'final.cpkt'), inside the directory
FinalPath == "final.cpkt"

\* saver.save(session, path) with the parameters as they are: the file at path is
\* created or replaced
WriteFile(fs, path, content) ==
    [p \in DOMAIN fs \cup {path} |->
        IF p = path
        THEN [writes |-> (IF path \in DOMAIN fs THEN fs[path].writes ELSE 0) + 1,
              params |-> content]
        ELSE fs[p]]

----------------------------------------------------------------------------
(* Set-up, lines 67-109 *)

\* the queue runners started before the model is created
SetupOrderRunnersFirst ==
    <<"configs", "start_queue_runners", "create_model", "build",
      "optimizer", "init_variables", "restore", "open_log", "makedirs">>

SetupOrder == <<"configs", "create_model", "build", "start_queue_runners",
                "optimizer", "init_variables", "restore", "open_log", "makedirs">>

StepAfter(p) ==
    LET k == CHOOSE n \in 1..Len(SetupOrder) : SetupOrder[n] = p
    IN  IF k < Len(SetupOrder) THEN SetupOrder[k + 1] ELSE "for_epoch"

\* set-up steps with no effect on the modelled state
PlainSteps ==
    {"create_model", "optimizer", "init_variables", "restore", "open_log", "makedirs"}

Terminated == {"done", "crashed"}

LoopVars == <<epoch, i, train_valid_losses, best, current, saved_score, save_calls, written,
              caught, swallowed, params, pulls>>
ShutdownVars ==
    <<final_attempts, final_writes, stop_requested, joined, shutdown_log, files>>
PipelineVars == <<placeholders, built, threads_started, alive, queue>>

\* the ratios of the runs explored, as <<train, train_valid, valid, test>> in
\* hundredths: every split but test (the shape of the defaults), no train_valid
\* split, and no train steps with a test split
RatioChoices == {<<1, 2, 1, 0>>, <<1, 0, 1, 0>>, <<0, 1, 0, 1>>}

MainFlags ==
    {[examples |-> 100, batch_size |-> DefaultBatchSize,
      train_ratio |-> r[1], train_valid_ratio |-> r[2],
      valid_ratio |-> r[3], test_ratio |-> r[4], epochs |-> n] :
        r \in RatioChoices, n \in 0..MaxEpochs}

Init ==
    /\ flags \in MainFlags
    /\ split_sizes = SplitPlanner(flags)
    /\ pc = SetupOrder[1]
    /\ epoch = 0
    /\ i = 0
    /\ placeholders = {}
    /\ built = {}
    /\ threads_started = FALSE
    /\ alive = 0
    /\ queue = [s \in Splits |-> 0]
    /\ stop_requested = FALSE
    /\ joined = FALSE
    /\ train_valid_losses = <<>>
    /\ best = Unbound
    /\ current = Unbound
    /\ saved_score = Unbound
    /\ save_calls = {}
    /\ written = {}
    /\ final_attempts = 0
    /\ final_writes = 0
    /\ raised = NoError
    /\ pending = FALSE
    /\ caught = 0
    /\ swallowed = 0
    /\ shutdown_log = <<>>
    /\ params = 0
    /\ pulls = [s \in Splits |-> 0]
    /\ files = <<>>

\* an exception raised outside the try statement leaves main()
Crash(site) ==
    /\ pc' = "crashed"
    /\ raised' = [kind |-> "Exception", site |-> site]
    /\ pending' = TRUE

\* lines 67-75: decoder configurations, decoder class, one placeholder per config
Configs ==
    /\ pc = "configs"
    /\ placeholders' = DecoderConfigurations(split_sizes)
    /\ pc' = StepAfter("configs")
    /\ UNCHANGED <<flags, split_sizes, built, threads_started, alive, queue,
                   raised, pending, LoopVars, ShutdownVars>>

\* line 68: get_decoder_class raises for an unknown dataset name
ConfigsRaises ==
    /\ pc = "configs"
    /\ Crash("configs")
    /\ UNCHANGED <<flags, split_sizes, PipelineVars, LoopVars, ShutdownVars>>

\* lines 78-83: placeholders[split] is a KeyError for a split without placeholder
Build ==
    /\ pc = "build"
    /\ IF Graphs(split_sizes) \subseteq placeholders
       THEN /\ built' = Graphs(split_sizes)
            /\ pc' = StepAfter("build")
            /\ UNCHANGED <<raised, pending>>
       ELSE /\ Crash("build")
            /\ UNCHANGED built
    /\ UNCHANGED <<flags, split_sizes, placeholders, threads_started, alive, queue,
                   LoopVars, ShutdownVars>>

\* lines 84-87: the queue runners of every placeholder are started
StartQueueRunners ==
    /\ pc = "start_queue_runners"
    /\ threads_started' = TRUE
    /\ alive' = MaxThreads
    /\ pc' = StepAfter("start_queue_runners")
    /\ UNCHANGED <<flags, split_sizes, placeholders, built, queue, raised, pending,
                   LoopVars, ShutdownVars>>

\* lines 77, 89-109: the other set-up calls return ...
PlainStep ==
    /\ pc \in PlainSteps
    /\ pc' = StepAfter(pc)
    /\ UNCHANGED <<flags, split_sizes, PipelineVars, raised, pending, LoopVars,
                   ShutdownVars>>

\* ... or raise (no model name, unknown optimizer key, restore, open, makedirs)
PlainStepRaises ==
    /\ pc \in PlainSteps
    /\ Crash(pc)
    /\ UNCHANGED <<flags, split_sizes, PipelineVars, LoopVars, ShutdownVars>>

----------------------------------------------------------------------------
(* Feeder threads: the queue runners behind read_and_decode, lines 69-75, 86-87 *)

\* a running feeder thread deposits one item unless its queue is full
WorkerDeposit ==
    /\ pc \notin Terminated
    /\ ~stop_requested
    /\ alive > 0
    /\ \E s \in placeholders :
          /\ queue[s] < MaxCapacity
          /\ queue' = [queue EXCEPT ![s] = @ + 1]
    /\ UNCHANGED <<flags, split_sizes, pc, placeholders, built, threads_started,
                   alive, raised, pending, LoopVars, ShutdownVars>>

\* once the coordinator asks to stop, a feeder thread exits, stalled or not
WorkerExit ==
    /\ pc \notin Terminated
    /\ stop_requested
    /\ alive > 0
    /\ alive' = alive - 1
    /\ UNCHANGED <<flags, split_sizes, pc, placeholders, built, threads_started,
                   queue, raised, pending, LoopVars, ShutdownVars>>

----------------------------------------------------------------------------
(* The epoch loop, lines 110-136 *)

\* an exception raised in the try body, outside the inner try statement
Raise(kind, site) ==
    /\ raised' = [kind |-> kind, site |-> site]
    /\ pending' = TRUE
    /\ pc' = IF CaughtByLoop(kind) THEN "except" ELSE "final_save"

\* session.run returns a batch although the queue of the split is empty
PullReturnsFromEmpty(s) ==
    /\ i < split_sizes[s]
    /\ s \in placeholders
    /\ queue' = [queue EXCEPT ![s] = @ - 1]
    /\ pulls' = [pulls EXCEPT ![s] = @ + 1]
    /\ i' = i + 1

\* session.run on the graph of split s returns: one item leaves the queue of s
PullReturns(s) ==
    /\ i < split_sizes[s]
    /\ s \in placeholders
    /\ queue[s] > 0
    /\ queue' = [queue EXCEPT ![s] = @ - 1]
    /\ pulls' = [pulls EXCEPT ![s] = @ + 1]
    /\ i' = i + 1

\* session.run raises; placeholders[s] is a KeyError for a split without placeholder
PullRaises(s) ==
    /\ i < split_sizes[s]
    /\ \E kind \in (IF s \in placeholders THEN RunErrors ELSE {"Exception"}) :
          Raise(kind, s)

\* the loop runs one epoch more than FLAGS.epochs
ForEpochOneMore ==
    /\ pc = "for_epoch"
    /\ pc' = IF epoch <= flags.epochs THEN "train" ELSE "final_save"
    /\ i' = 0
    /\ UNCHANGED <<flags, split_sizes, PipelineVars, raised, pending, ShutdownVars,
                   epoch, train_valid_losses, best, current, saved_score, save_calls, written,
                   caught, swallowed, params, pulls>>

\* line 111: for epoch in range(FLAGS.epochs)
ForEpoch ==
    /\ pc = "for_epoch"
    /\ pc' = IF epoch < flags.epochs THEN "train" ELSE "final_save"
    /\ i' = 0
    /\ UNCHANGED <<flags, split_sizes, PipelineVars, raised, pending, ShutdownVars,
                   epoch, train_valid_losses, best, current, saved_score, save_calls, written,
                   caught, swallowed, params, pulls>>

\* line 114: one train pull with its optimization step
TrainPull ==
    /\ pc = "train"
    /\ PullReturns("train")
    /\ params' = params + 1
    /\ UNCHANGED <<flags, split_sizes, pc, placeholders, built, threads_started,
                   alive, raised, pending, ShutdownVars, epoch, train_valid_losses,
                   best, current, saved_score, save_calls, written, caught, swallowed>>

TrainPullRaises ==
    /\ pc = "train"
    /\ PullRaises("train")
    /\ UNCHANGED <<flags, split_sizes, PipelineVars, LoopVars, ShutdownVars>>

\* line 113: range(split_sizes.train) is exhausted
TrainDone ==
    /\ pc = "train"
    /\ i >= split_sizes.train
    /\ pc' = "valid"
    /\ i' = 0
    /\ UNCHANGED <<flags, split_sizes, PipelineVars, raised, pending, ShutdownVars,
                   epoch, train_valid_losses, best, current, saved_score, save_calls, written,
                   caught, swallowed, params, pulls>>

\* the valid pull runs the optimization step as well
ValidPullTrains ==
    /\ pc = "valid"
    /\ PullReturns("valid")
    /\ params' = params + 1
    /\ UNCHANGED <<flags, split_sizes, pc, placeholders, built, threads_started,
                   alive, raised, pending, ShutdownVars, epoch, train_valid_losses,
                   best, current, saved_score, save_calls, written, caught, swallowed>>

\* line 118: one valid pull, evaluation only
ValidPull ==
    /\ pc = "valid"
    /\ PullReturns("valid")
    /\ UNCHANGED <<flags, split_sizes, pc, placeholders, built, threads_started,
                   alive, raised, pending, ShutdownVars, epoch, train_valid_losses,
                   best, current, saved_score, save_calls, written, caught, swallowed, params>>

ValidPullRaises ==
    /\ pc = "valid"
    /\ PullRaises("valid")
    /\ UNCHANGED <<flags, split_sizes, PipelineVars, LoopVars, ShutdownVars>>

\* line 117: range(split_sizes.valid) is exhausted
ValidDone ==
    /\ pc = "valid"
    /\ i >= split_sizes.valid
    /\ pc' = "if_train_valid"
    /\ i' = 0
    /\ UNCHANGED <<flags, split_sizes, PipelineVars, raised, pending, ShutdownVars,
                   epoch, train_valid_losses, best, current, saved_score, save_calls, written,
                   caught, swallowed, params, pulls>>

\* the list of losses is not emptied at the start of the train_valid loop
IfTrainValidKeepsLosses ==
    /\ pc = "if_train_valid"
    /\ IF split_sizes.train_valid > 0
       THEN /\ pc' = "train_valid"
            /\ UNCHANGED <<epoch, train_valid_losses>>
       ELSE /\ epoch' = epoch + 1
            /\ pc' = "for_epoch"
            /\ UNCHANGED train_valid_losses
    /\ UNCHANGED <<flags, split_sizes, PipelineVars, raised, pending, ShutdownVars,
                   i, best, current, saved_score, save_calls, written, caught, swallowed, params,
                   pulls>>

\* a checkpoint of the epoch saved also when there are no train_valid steps
IfTrainValidSavesAnyway ==
    /\ pc = "if_train_valid"
    /\ IF split_sizes.train_valid > 0
       THEN /\ train_valid_losses' = <<>>
            /\ pc' = "train_valid"
            /\ UNCHANGED <<epoch, save_calls, written, files>>
       ELSE /\ epoch' = epoch + 1
            /\ pc' = "for_epoch"
            /\ save_calls' = save_calls \cup {epoch}
            /\ written' = written \cup {epoch}
            /\ files' = WriteFile(files, EpochPath(epoch), params)
            /\ UNCHANGED train_valid_losses
    /\ UNCHANGED <<flags, split_sizes, PipelineVars, raised, pending, final_attempts,
                   final_writes, stop_requested, joined, shutdown_log,
                   i, best, current, saved_score, caught, swallowed, params, pulls>>

\* lines 121-122: the early-stopping part runs only with train_valid steps
IfTrainValid ==
    /\ pc = "if_train_valid"
    /\ IF split_sizes.train_valid > 0
       THEN /\ train_valid_losses' = <<>>
            /\ pc' = "train_valid"
            /\ UNCHANGED epoch
       ELSE /\ epoch' = epoch + 1
            /\ pc' = "for_epoch"
            /\ UNCHANGED train_valid_losses
    /\ UNCHANGED <<flags, split_sizes, PipelineVars, raised, pending, ShutdownVars,
                   i, best, current, saved_score, save_calls, written, caught, swallowed, params,
                   pulls>>

\* line 124: one train_valid pull, its loss (one of vals) appended to the list
TrainValidPullFrom(vals) ==
    /\ pc = "train_valid"
    /\ PullReturns("train_valid")
    /\ \E loss \in vals : train_valid_losses' = Append(train_valid_losses, loss)
    /\ UNCHANGED <<flags, split_sizes, pc, placeholders, built, threads_started,
                   alive, raised, pending, ShutdownVars, epoch, best, current, saved_score,
                   save_calls, written, caught, swallowed, params>>

\* the early-stopping loop pulls test
TrainValidPullTest ==
    /\ pc = "train_valid"
    /\ PullReturns("test")
    /\ \E loss \in LossVals : train_valid_losses' = Append(train_valid_losses, loss)
    /\ UNCHANGED <<flags, split_sizes, pc, placeholders, built, threads_started,
                   alive, raised, pending, ShutdownVars, epoch, best, current, saved_score,
                   save_calls, written, caught, swallowed, params>>

TrainValidPull == TrainValidPullFrom(LossVals)

TrainValidPullRaises ==
    /\ pc = "train_valid"
    /\ PullRaises("train_valid")
    /\ UNCHANGED <<flags, split_sizes, PipelineVars, LoopVars, ShutdownVars>>

\* the train_valid loop is left one pull early
TrainValidDoneEarly ==
    /\ pc = "train_valid"
    /\ i >= split_sizes.train_valid - 1
    /\ pc' = "score"
    /\ UNCHANGED <<flags, split_sizes, PipelineVars, raised, pending, ShutdownVars,
                   epoch, i, train_valid_losses, best, current, saved_score, save_calls, written,
                   caught, swallowed, params, pulls>>

\* line 123: range(split_sizes.train_valid) is exhausted
TrainValidDone ==
    /\ pc = "train_valid"
    /\ i >= split_sizes.train_valid
    /\ pc' = "score"
    /\ UNCHANGED <<flags, split_sizes, PipelineVars, raised, pending, ShutdownVars,
                   epoch, i, train_valid_losses, best, current, saved_score, save_calls, written,
                   caught, swallowed, params, pulls>>

\* best is assigned at epoch 1, not at epoch 0
BestAfterEpochOne(e, cur, b) == IF e = 1 THEN cur ELSE b

\* lines 128-129: best is assigned at epoch 0 only
BestAfter(e, cur, b) == IF e = 0 THEN cur ELSE b

\* line 130: the checkpoint of the epoch is saved iff current <= best
IsBest(cur, b) == Leq(cur, b)

\* what lines 127-131 can end with: the division raises on an empty list, reading
\* an unassigned best raises, saver.save returns or raises, or nothing is saved
ScoreOutcomes(losses, b) ==
    IF Len(losses) = 0 THEN {"ZeroDivisionError"}
    ELSE IF b = Unbound THEN {"Exception"}
    ELSE IF IsBest(Mean(losses), b) THEN {"ok"} \cup ErrorKinds
    ELSE {"skip"}

\* lines 126-133: mean, best, comparison and save inside try/except ZeroDivisionError
Score ==
    /\ pc = "score"
    /\ LET losses  == train_valid_losses
           empty   == Len(losses) = 0
           mean    == IF empty THEN current ELSE Mean(losses)
           best1   == IF empty THEN best ELSE BestAfter(epoch, mean, best)
           saving  == ~empty /\ best1 # Unbound /\ IsBest(mean, best1)
           site    == IF empty THEN "mean" ELSE IF best1 = Unbound THEN "best" ELSE "save"
       IN  \E outcome \in ScoreOutcomes(losses, best1) :
              /\ best' = best1
              /\ current' = mean
              /\ saved_score' = IF saving THEN mean ELSE saved_score
              /\ save_calls' = IF saving THEN save_calls \cup {epoch} ELSE save_calls
              /\ written' = IF outcome = "ok" THEN written \cup {epoch} ELSE written
              /\ files' = IF outcome = "ok"
                          THEN WriteFile(files, EpochPath(epoch), params)
                          ELSE files
              /\ IF outcome \in {"ok", "skip"}
                 THEN /\ epoch' = epoch + 1
                      /\ pc' = "for_epoch"
                      /\ UNCHANGED <<raised, pending, swallowed>>
                 ELSE IF CaughtByScore(outcome)
                 THEN /\ raised' = [kind |-> outcome, site |-> site]
                      /\ swallowed' = swallowed + 1
                      /\ epoch' = epoch + 1
                      /\ pc' = "for_epoch"
                      /\ UNCHANGED pending
                 ELSE /\ Raise(outcome, site)
                      /\ UNCHANGED <<epoch, swallowed>>
    /\ UNCHANGED <<flags, split_sizes, PipelineVars, final_attempts, final_writes,
                   stop_requested, joined, shutdown_log, i, train_valid_losses,
                   caught, params, pulls>>

\* lines 135-136: the exception is printed and dropped
Except ==
    /\ pc = "except"
    /\ caught' = caught + 1
    /\ pending' = FALSE
    /\ pc' = "final_save"
    /\ UNCHANGED <<flags, split_sizes, PipelineVars, raised, ShutdownVars, epoch, i,
                   train_valid_losses, best, current, saved_score, save_calls, written, swallowed,
                   params, pulls>>

----------------------------------------------------------------------------
(* The finally block, lines 137-143 *)

\* lines 139-140: final.cpkt is written
FinalSave ==
    /\ pc = "final_save"
    /\ final_attempts' = final_attempts + 1
    /\ final_writes' = final_writes + 1
    /\ files' = WriteFile(files, FinalPath, params)
    /\ shutdown_log' = Append(shutdown_log, "save")
    /\ pc' = "print"
    /\ UNCHANGED <<flags, split_sizes, PipelineVars, raised, pending, LoopVars,
                   stop_requested, joined>>

\* line 140 raises: the rest of the finally block is not executed
FinalSaveRaises ==
    /\ pc = "final_save"
    /\ final_attempts' = final_attempts + 1
    /\ raised' = [kind |-> "Exception", site |-> "final_save"]
    /\ pending' = TRUE
    /\ pc' = "crashed"
    /\ UNCHANGED <<flags, split_sizes, PipelineVars, LoopVars, final_writes,
                   stop_requested, joined, shutdown_log, files>>

\* line 141
PrintSaved ==
    /\ pc = "print"
    /\ shutdown_log' = Append(shutdown_log, "message")
    /\ pc' = "request_stop"
    /\ UNCHANGED <<flags, split_sizes, PipelineVars, raised, pending, LoopVars,
                   final_attempts, final_writes, stop_requested, joined, files>>

\* line 142 without effect: the threads are never asked to stop
RequestStopUnheard ==
    /\ pc = "request_stop"
    /\ shutdown_log' = Append(shutdown_log, "request_stop")
    /\ pc' = "join"
    /\ UNCHANGED <<flags, split_sizes, PipelineVars, raised, pending, LoopVars,
                   final_attempts, final_writes, stop_requested, joined, files>>

\* line 142
RequestStop ==
    /\ pc = "request_stop"
    /\ stop_requested' = TRUE
    /\ shutdown_log' = Append(shutdown_log, "request_stop")
    /\ pc' = "join"
    /\ UNCHANGED <<flags, split_sizes, PipelineVars, raised, pending, LoopVars,
                   final_attempts, final_writes, joined, files>>

\* line 143: returns when every feeder thread has exited; an exception the except
\* clause did not handle goes on propagating after the finally block
Join ==
    /\ pc = "join"
    /\ alive = 0
    /\ joined' = TRUE
    /\ shutdown_log' = Append(shutdown_log, "join")
    /\ pc' = IF pending THEN "crashed" ELSE "done"
    /\ UNCHANGED <<flags, split_sizes, PipelineVars, raised, pending, LoopVars,
                   final_attempts, final_writes, stop_requested, files>>

----------------------------------------------------------------------------
(* Split planning on its own, lines 61-65, over a wider range of flags *)

PlanRatios == {-50, 0, 1, 19, 50, 80}

PlanFlags ==
    [examples : (-1..MaxExamples) \cup {DefaultExamples}, batch_size : 0..MaxBatch,
     train_ratio : PlanRatios, train_valid_ratio : PlanRatios,
     valid_ratio : PlanRatios, test_ratio : PlanRatios,
     epochs : {MaxEpochs}]

InitPlan ==
    /\ flags \in PlanFlags
    /\ split_sizes = Unplanned
    /\ pc = "plan"
    /\ epoch = 0
    /\ i = 0
    /\ placeholders = {}
    /\ built = {}
    /\ threads_started = FALSE
    /\ alive = 0
    /\ queue = [s \in Splits |-> 0]
    /\ stop_requested = FALSE
    /\ joined = FALSE
    /\ train_valid_losses = <<>>
    /\ best = Unbound
    /\ current = Unbound
    /\ saved_score = Unbound
    /\ save_calls = {}
    /\ written = {}
    /\ final_attempts = 0
    /\ final_writes = 0
    /\ raised = NoError
    /\ pending = FALSE
    /\ caught = 0
    /\ swallowed = 0
    /\ shutdown_log = <<>>
    /\ params = 0
    /\ pulls = [s \in Splits |-> 0]
    /\ files = <<>>

\* lines 61-65: the four step counts
Plan ==
    /\ pc = "plan"
    /\ flags.batch_size # 0
    /\ split_sizes' = SplitPlanner(flags)
    /\ pc' = "planned"
    /\ UNCHANGED <<flags, PipelineVars, raised, pending, LoopVars, ShutdownVars>>

\* line 61: the float division raises ZeroDivisionError for batch_size 0
PlanRaises ==
    /\ pc = "plan"
    /\ flags.batch_size = 0
    /\ raised' = [kind |-> "ZeroDivisionError", site |-> "plan"]
    /\ pending' = TRUE
    /\ pc' = "crashed"
    /\ UNCHANGED <<flags, split_sizes, PipelineVars, LoopVars, ShutdownVars>>

NextPlan == Plan \/ PlanRaises

SpecPlan == InitPlan /\ [][NextPlan]_vars

----------------------------------------------------------------------------

Next ==
    \/ Configs \/ ConfigsRaises \/ Build \/ StartQueueRunners
    \/ PlainStep \/ PlainStepRaises
    \/ WorkerDeposit \/ WorkerExit
    \/ ForEpoch
    \/ TrainPull \/ TrainPullRaises \/ TrainDone
    \/ ValidPull \/ ValidPullRaises \/ ValidDone
    \/ IfTrainValid
    \/ TrainValidPull \/ TrainValidPullRaises \/ TrainValidDone
    \/ Score \/ Except
    \/ FinalSave \/ FinalSaveRaises \/ PrintSaved \/ RequestStop \/ Join

Spec == Init /\ [][Next]_vars

----------------------------------------------------------------------------
(* Scheduling: the control thread goes on as long as its next statement can return,
   a feeder thread that can deposit or exit does so; no exception has to be raised *)

ControlReturns ==
    \/ Configs \/ Build \/ StartQueueRunners \/ PlainStep
    \/ ForEpoch
    \/ TrainPull \/ TrainDone
    \/ ValidPull \/ ValidDone
    \/ IfTrainValid
    \/ TrainValidPull \/ TrainValidDone
    \/ Score \/ Except
    \/ FinalSave \/ PrintSaved \/ RequestStop \/ Join

\* the runs of one epoch at most
InitLive ==
    /\ Init
    /\ flags.epochs <= 1

SpecLive ==
    /\ InitLive
    /\ [][Next]_vars
    /\ WF_vars(ControlReturns)
    /\ WF_vars(WorkerDeposit)
    /\ WF_vars(WorkerExit)

----------------------------------------------------------------------------
(* Two epochs of two train_valid pulls each, the losses in tenths: 0.3, 0.5, 0.6 *)

ScenarioLosses == {F(3), F(5), F(6)}

InitScenario ==
    /\ Init
    /\ flags.epochs = 2
    /\ split_sizes.train_valid = 2

TrainValidPullScenario == TrainValidPullFrom(ScenarioLosses)

NextScenario ==
    \/ Configs \/ ConfigsRaises \/ Build \/ StartQueueRunners
    \/ PlainStep \/ PlainStepRaises
    \/ WorkerDeposit \/ WorkerExit
    \/ ForEpoch
    \/ TrainPull \/ TrainPullRaises \/ TrainDone
    \/ ValidPull \/ ValidPullRaises \/ ValidDone
    \/ IfTrainValid
    \/ TrainValidPullScenario \/ TrainValidPullRaises \/ TrainValidDone
    \/ Score \/ Except
    \/ FinalSave \/ FinalSaveRaises \/ PrintSaved \/ RequestStop \/ Join

SpecScenario == InitScenario /\ [][NextScenario]_vars

----------------------------------------------------------------------------
(* Properties *)

SetupSites == {SetupOrder[n] : n \in 1..Len(SetupOrder)}
EpochSites == {"train", "valid", "train_valid", "mean", "best", "save"}
NonTrain == {"train_valid", "valid", "test"}
ShutdownSteps == <<"save", "message", "request_stop", "join">>

\* the run reached the try statement of line 110
EnteredLoop == pc \notin SetupSites /\ ~(pc = "crashed" /\ raised.site \in SetupSites)

IsPrefix(s, u) == Len(s) <= Len(u) /\ \A n \in 1..Len(s) : s[n] = u[n]

\* the running best of C1: the first score, then the score of the latest epoch
\* checkpoint saved
ClaimedBest == IF saved_score = Unbound THEN best ELSE saved_score

\* C1: with train_valid steps, the checkpoint of an epoch k > 0 is written iff the
\* score of the epoch is <= the running best, the running best being the first
\* score and then the score of the latest epoch checkpoint written (the minimum so
\* far).  Stated for the runs in which no saver.save has raised.
C1_Original ==
    [][(/\ pc = "score" /\ epoch > 0 /\ written = save_calls
        /\ pc' = "for_epoch" /\ swallowed' = swallowed)
          => ((epoch \in written') <=> Leq(current', ClaimedBest))]_vars

\* C2: every run that reached the epoch loop ends with exactly one write of the
\* final checkpoint and with the feeder threads asked to stop and joined.
C2_Original ==
    (pc \in Terminated /\ EnteredLoop)
        => (final_writes = 1 /\ stop_requested /\ joined /\ alive = 0)

\* C3: the steps of the shutdown are taken in the order save, message, request_stop,
\* join, and a run that reached the epoch loop ends with all four of them taken.
C3_Original ==
    /\ IsPrefix(shutdown_log, ShutdownSteps)
    /\ (pc \in Terminated /\ EnteredLoop) => shutdown_log = ShutdownSteps

\* C4: no run that started the feeder threads ends without a final checkpoint
\* written or without the threads asked to stop and joined.
C4_Original ==
    (pc \in Terminated /\ threads_started)
        => (final_writes >= 1 /\ stop_requested /\ joined)

\* an error (an Exception, ZeroDivisionError included) was raised in an epoch
LoopError == raised.kind \in {"ZeroDivisionError", "Exception"} /\ raised.site \in EpochSites

\* C5: after an error raised in an epoch, no pull, no optimization step and no call
\* of saver.save for an epoch follows, no later epoch starts, the error is handled
\* at the loop boundary at most once and does not leave main().
C5_Original ==
    [][LoopError =>
          /\ pulls' = pulls
          /\ params' = params
          /\ save_calls' = save_calls
          /\ epoch' = epoch
          /\ caught' <= 1
          /\ (pc' = "crashed" => raised' # raised)]_vars

\* C6: with train_valid steps, once the score of epoch 0 is computed, whatever its
\* value, saver.save was called for epoch 0.
C6_Original ==
    (split_sizes.train_valid > 0 /\ current # Unbound) => 0 \in save_calls

\* C7: with train_valid_steps = 0, no epoch checkpoint is saved or written and
\* best and current are never assigned, in any state of any run; the one
\* checkpoint written is the final one.
C7_NoEpochCheckpoint ==
    split_sizes.train_valid = 0
        => /\ save_calls = {}
           /\ written = {}
           /\ best = Unbound
           /\ current = Unbound
           /\ final_writes <= 1

\* a run without train_valid steps that completed two epochs or more and wrote
\* final.cpkt
C7_Witness ==
    /\ split_sizes.train_valid = 0
    /\ pc = "done"
    /\ epoch >= 2
    /\ pulls["train"] >= 2
    /\ final_writes = 1

\* n is the integer nearest to num / den (den > 0), the even one of the two in a tie
Nearest(n, num, den) ==
    LET d == 2 * (n * den - num)
    IN  /\ -den <= d
        /\ d <= den
        /\ (d = den \/ d = -den) => n % 2 = 0

Ratio(f, s) ==
    CASE s = "train" -> f.train_ratio
      [] s = "train_valid" -> f.train_valid_ratio
      [] s = "valid" -> f.valid_ratio
      [] s = "test" -> f.test_ratio

ScenarioA ==
    /\ flags.examples = DefaultExamples
    /\ flags.batch_size = DefaultBatchSize
    /\ flags.train_ratio = DefaultTrainRatio
    /\ flags.train_valid_ratio = DefaultTrainValidRatio
    /\ flags.valid_ratio = DefaultValidRatio
    /\ flags.test_ratio = DefaultTestRatio

\* C8, as stated: whatever the flags, the four split sizes are non-negative.
C8_Original ==
    pc = "planned" => \A s \in Splits : split_sizes[s] >= 0

\* C8, amended: for a batch size >= 1, each split size is the integer nearest to
\* examples * ratio / batch_size, ties going to the even integer; it is
\* non-negative when examples and the ratio are; the default flags give
\* (160, 2, 38, 0).
C8_SplitSizes ==
    pc = "planned" =>
        /\ \A s \in Splits :
              /\ Nearest(split_sizes[s], flags.examples * Ratio(flags, s),
                         100 * flags.batch_size)
              /\ (flags.examples >= 0 /\ Ratio(flags, s) >= 0) => split_sizes[s] >= 0
        /\ ScenarioA =>
              split_sizes = [train |-> 160, train_valid |-> 2, valid |-> 38, test |-> 0]

\* the default flags, planned
C8_Witness ==
    /\ pc = "planned"
    /\ ScenarioA
    /\ split_sizes.train = 160
    /\ split_sizes.valid = 38

\* C9: a placeholder is bound and a graph built for train always and for another
\* split iff its step count is > 0; pulls return only from bound handles, no pull
\* fails for a missing handle, and a split with no steps is never pulled.
C9_BoundHandles ==
    /\ placeholders # {} =>
          /\ "train" \in placeholders
          /\ \A s \in NonTrain : s \in placeholders <=> split_sizes[s] > 0
    /\ built # {} =>
          /\ "train" \in built
          /\ \A s \in NonTrain : s \in built <=> split_sizes[s] > 0
    /\ \A s \in Splits : pulls[s] > 0 => s \in placeholders
    /\ \A s \in Splits : split_sizes[s] <= 0 => pulls[s] = 0
    /\ raised.site \in Splits => raised.site \in placeholders
    /\ raised.site # "build"

\* a completed run with no train steps and no valid split, whose train handle is
\* bound all the same, and whose train_valid handle was pulled
C9_Witness ==
    /\ pc = "done"
    /\ split_sizes.train = 0
    /\ split_sizes.valid = 0
    /\ "train" \in placeholders
    /\ "train" \in built
    /\ "valid" \notin placeholders
    /\ "test" \in built
    /\ pulls["train_valid"] > 0
    /\ pulls["train"] = 0

\* C10: an unknown dataset name (line 68) or a missing model name (line 77) is
\* raised in a state where no feeder thread was started.
C10_ConfigErrorBeforeWorkers ==
    raised.site \in {"configs", "create_model"}
        => /\ ~threads_started
           /\ alive = 0
           /\ \A s \in Splits : queue[s] = 0

\* create_model has raised, after the placeholders were bound
C10_Witness ==
    /\ pc = "crashed"
    /\ raised.site = "create_model"
    /\ placeholders # {}
    /\ ~threads_started

\* the pulls on split s of k whole epochs
EpochsOf(k, s) == k * split_sizes[s]

\* C11: in every epoch the control thread pulls train exactly train times (one
\* optimization step with each pull), then valid exactly valid times, then
\* train_valid exactly train_valid times: at every position of the loop the pulls
\* of each split are those of the whole epochs before plus, for the split being
\* pulled, the i pulls of this epoch, and a run that ends with no exception has
\* taken epochs * train optimization steps.
C11_PullsInOrder ==
    /\ params = pulls["train"]
    /\ pc = "for_epoch" =>
          \A s \in {"train", "valid", "train_valid"} : pulls[s] = EpochsOf(epoch, s)
    /\ pc = "train" =>
          /\ i <= split_sizes.train
          /\ pulls["train"] = EpochsOf(epoch, "train") + i
          /\ pulls["valid"] = EpochsOf(epoch, "valid")
          /\ pulls["train_valid"] = EpochsOf(epoch, "train_valid")
    /\ pc = "valid" =>
          /\ i <= split_sizes.valid
          /\ pulls["train"] = EpochsOf(epoch + 1, "train")
          /\ pulls["valid"] = EpochsOf(epoch, "valid") + i
          /\ pulls["train_valid"] = EpochsOf(epoch, "train_valid")
    /\ pc = "if_train_valid" =>
          /\ pulls["train"] = EpochsOf(epoch + 1, "train")
          /\ pulls["valid"] = EpochsOf(epoch + 1, "valid")
          /\ pulls["train_valid"] = EpochsOf(epoch, "train_valid")
    /\ pc = "train_valid" =>
          /\ i <= split_sizes.train_valid
          /\ pulls["train"] = EpochsOf(epoch + 1, "train")
          /\ pulls["valid"] = EpochsOf(epoch + 1, "valid")
          /\ pulls["train_valid"] = EpochsOf(epoch, "train_valid") + i
    /\ pc = "score" =>
          \A s \in {"train", "valid", "train_valid"} : pulls[s] = EpochsOf(epoch + 1, s)
    /\ (pc = "done" /\ caught = 0) =>
          /\ epoch = flags.epochs
          /\ params = flags.epochs * split_sizes.train
          /\ \A s \in {"train", "valid", "train_valid"} : pulls[s] = EpochsOf(flags.epochs, s)

\* a run of two epochs or more over three active splits that ended with no exception
C11_Witness ==
    /\ pc = "done"
    /\ caught = 0
    /\ flags.epochs >= 2
    /\ split_sizes.train > 0 /\ split_sizes.valid > 0 /\ split_sizes.train_valid > 1
    /\ params = flags.epochs * split_sizes.train
    /\ pulls["train_valid"] = flags.epochs * split_sizes.train_valid

\* a and b are the same finite number
SameFloat(a, b) == Leq(a, b) /\ Leq(b, a)

\* C12: the score of an epoch is the mean of the train_valid losses pulled in that
\* epoch and of no other: the list holds the i losses of the running loop, all
\* train_valid of them when the mean is taken, and current is their mean until the
\* list is emptied for the next epoch.  With losses 0.5, 0.3 at epoch 0 the score
\* and best are 0.4 and saver.save is called for epoch 0 (0.cpkt is written when it
\* returns); with losses 0.6, 0.6 at epoch 1 the score is 0.6 and saver.save is not
\* called for epoch 1.
C12_ScoreIsEpochMean ==
    /\ pc = "train_valid" => Len(train_valid_losses) = i
    /\ pc = "score" => Len(train_valid_losses) = split_sizes.train_valid
    /\ (pc \in {"for_epoch", "train", "valid", "if_train_valid"} /\ current # Unbound)
          => /\ Len(train_valid_losses) = split_sizes.train_valid
             /\ current = Mean(train_valid_losses)
    /\ (pc = "for_epoch" /\ epoch = 1 /\ train_valid_losses = <<F(5), F(3)>>)
          => /\ SameFloat(current, F(4))
             /\ SameFloat(best, F(4))
             /\ 0 \in save_calls
             /\ (swallowed = 0 => 0 \in written)
    /\ (pc = "for_epoch" /\ epoch = 2 /\ SameFloat(best, F(4))
          /\ train_valid_losses = <<F(6), F(6)>>)
          => /\ SameFloat(current, F(6))
             /\ 1 \notin save_calls
             /\ 1 \notin written

\* scenario C: 0.5, 0.3 then 0.6, 0.6, and 0.cpkt the one epoch checkpoint
C12_Witness ==
    /\ pc = "for_epoch"
    /\ epoch = 2
    /\ train_valid_losses = <<F(6), F(6)>>
    /\ SameFloat(best, F(4))
    /\ SameFloat(current, F(6))
    /\ written = {0}
    /\ DOMAIN files = {EpochPath(0)}

\* C13: every epoch checkpoint written is a file of its own, named after its epoch
\* and written once, so that no later epoch writes over it; final.cpkt is one more
\* file, written at most once in the run and under a name no epoch has.
C13_OwnPathPerEpoch ==
    /\ \A e \in written :
          /\ EpochPath(e) \in DOMAIN files
          /\ EpochPath(e) # FinalPath
          /\ \A d \in written : d # e => EpochPath(d) # EpochPath(e)
    /\ \A p \in DOMAIN files : files[p].writes = 1
    /\ DOMAIN files =
          {EpochPath(e) : e \in written} \cup (IF final_writes > 0 THEN {FinalPath} ELSE {})
    /\ Cardinality(DOMAIN files) = Cardinality(written) + final_writes

\* three epoch checkpoints and final.cpkt on disk at the end of the run
C13_Witness ==
    /\ pc = "done"
    /\ written = {0, 1, 2}
    /\ final_writes = 1
    /\ DOMAIN files = {EpochPath(0), EpochPath(1), EpochPath(2), FinalPath}

C16_OnlyTrainPullUpdates ==
    /\ [][/\ params' # params =>
                /\ pc = "train"
                /\ params' = params + 1
                /\ pulls'["train"] = pulls["train"] + 1
                /\ \A s \in NonTrain : pulls'[s] = pulls[s]
                /\ files' = files
          /\ files' # files =>
                /\ params' = params
                /\ pulls' = pulls
                /\ \E p \in DOMAIN files' :
                      /\ files' = WriteFile(files, p, params)
                      /\ files'[p].params = pulls["train"]]_vars
    /\ [](\A e \in written : files[EpochPath(e)].params = EpochsOf(e + 1, "train"))
    /\ [](final_writes > 0 => files[FinalPath].params = params)

\* a run with valid and train_valid pulls ended: the checkpoint of epoch 1 and
\* final.cpkt hold the parameters of the last optimization step
C16_Witness ==
    /\ pc = "done"
    /\ params >= 2
    /\ pulls["valid"] >= 2
    /\ pulls["train_valid"] >= 2
    /\ 1 \in written
    /\ files[EpochPath(1)].params = 2
    /\ final_writes = 1
    /\ files[FinalPath].params = params

\* C17: the epoch loop never pulls test: whatever test_steps, with the placeholder
\* of test bound, its graph built and its queue fed, the pulls on test are 0 in
\* every state of every run and nothing is ever taken from its queue.
C17_TestNeverPulled ==
    /\ [](pulls["test"] = 0)
    /\ [][queue'["test"] >= queue["test"]]_vars

\* a run of two epochs or more with test active ended, the queue of test full
C17_Witness ==
    /\ split_sizes.test > 0
    /\ "test" \in placeholders
    /\ "test" \in built
    /\ threads_started
    /\ pc = "done"
    /\ epoch >= 2
    /\ pulls["train_valid"] >= 2
    /\ queue["test"] = MaxCapacity
    /\ pulls["test"] = 0

\* C18: the checkpoint of epoch k is written when the train, valid and train_valid
\* pulls of epochs 0..k are all done and none of epoch k+1 is, in a step that
\* pulls nothing; final.cpkt is written after every epoch checkpoint, and once it
\* is written (or its write has failed) no checkpoint is written any more.
C18_WriteBetweenEpochs ==
    /\ [][/\ written' # written =>
                /\ epoch \notin written
                /\ written' = written \cup {epoch}
                /\ \A s \in {"train", "valid", "train_valid"} :
                      pulls[s] = EpochsOf(epoch + 1, s)
                /\ pulls' = pulls
                /\ final_attempts = 0
          /\ final_attempts > 0 =>
                /\ written' = written
                /\ save_calls' = save_calls
                /\ pulls' = pulls
          /\ final_writes > 0 => files' = files]_vars
    /\ [](\A e \in written :
            \A s \in {"train", "valid", "train_valid"} : pulls[s] >= EpochsOf(e + 1, s))

\* the pulls of epoch 2 under way after the checkpoints of epochs 0 and 1
C18_Witness ==
    /\ written = {0, 1}
    /\ epoch = 2
    /\ pc = "valid"
    /\ pulls["train"] = EpochsOf(3, "train")
    /\ pulls["train"] > 0
    /\ pulls["train_valid"] = EpochsOf(2, "train_valid")
    /\ final_attempts = 0

\* C19: when the mean of line 127 is taken the list holds train_valid_steps >= 1
\* losses, so the division never raises and no run skips the comparison on an
\* empty list; and best is assigned before every comparison with it, at epoch 0
\* in the same pass, at a later epoch since epoch 0.
C19_MeanOfFullList ==
    /\ [](pc = "score" =>
            /\ split_sizes.train_valid >= 1
            /\ Len(train_valid_losses) = split_sizes.train_valid
            /\ (epoch > 0 => best # Unbound /\ current # Unbound))
    /\ [](raised.site \notin {"mean", "best"})
    /\ [][(pc = "score" /\ pc' # "score") =>
            /\ current' = Mean(train_valid_losses)
            /\ best' # Unbound
            /\ (epoch = 0 => best' = current')
            /\ (epoch > 0 => best' = best)]_vars

\* the mean of a full list taken at epochs 0, 1 and 2, no exception raised
C19_Witness ==
    /\ pc = "for_epoch"
    /\ epoch = 3
    /\ split_sizes.train_valid = 2
    /\ Len(train_valid_losses) = 2
    /\ current = Mean(train_valid_losses)
    /\ best # Unbound
    /\ raised = NoError

====
